---- MODULE Spec2Model ----
(***************************************************************************)
(* Model of the integration layer of app/scripts/etl_orchestrator.py:      *)
(* DataLakehouseETL.process_integration_layer and the helpers it calls.    *)
(*                                                                         *)
(* Strings are sequences of one-character strings, so that upper(),        *)
(* split(), strip() and the substring test are computed, not assumed.      *)
(* A missing value (SQL NULL, Python None, pandas NaN) is the value NA.    *)
(* A DataFrame and a table are sequences of rows (records).                *)
(***************************************************************************)
EXTENDS Integers, Sequences, FiniteSets

VARIABLES
    tenableRaw,        \* rows of  Tenable_Vulns_Raw JOIN Tenable_Assets_Raw
    vicariusRaw,       \* rows of  Vicarius_Incidents_Raw JOIN Vicarius_Endpoints_Raw
    tenableReadable,   \* whether pd.read_sql on the Tenable source succeeds
    vicariusReadable,  \* whether pd.read_sql on the Vicarius source succeeds
    factTable,         \* Integracion_Fact_Unified_Vulns
    dimAssets,         \* Integracion_Dim_Assets
    history,           \* Integracion_Log_Mitigation_History
    today,             \* datetime.now().date(), as a day number
    runCount,          \* number of calls of process_integration_layer so far
    lastRun            \* what the last call read and how it ended

vars == <<tenableRaw, vicariusRaw, tenableReadable, vicariusReadable,
          factTable, dimAssets, history, today, runCount, lastRun>>

----------------------------------------------------------------------------
(* Bounds of the model *)

MaxRows == 3    \* rows in the two source tables together
MaxRuns == 2    \* calls of process_integration_layer in one behaviour
MaxDay  == 2    \* last day number the clock reaches

----------------------------------------------------------------------------
(* Strings *)

NA == << "<NA>" >>

IsNA(v) == v = NA

LowerChars == << "a","b","c","d","e","f","g","h","i","j","k","l","m",
                 "n","o","p","q","r","s","t","u","v","w","x","y","z" >>
UpperChars == << "A","B","C","D","E","F","G","H","I","J","K","L","M",
                 "N","O","P","Q","R","S","T","U","V","W","X","Y","Z" >>

\* the upper-case letter of each lower-case letter, and the reverse
UpperOf == [c \in {LowerChars[i] : i \in DOMAIN LowerChars} |->
               UpperChars[CHOOSE i \in DOMAIN LowerChars : LowerChars[i] = c]]
LowerOf == [c \in {UpperChars[i] : i \in DOMAIN UpperChars} |->
               LowerChars[CHOOSE i \in DOMAIN UpperChars : UpperChars[i] = c]]

\* str.upper()
Upper(s) ==
    [i \in DOMAIN s |-> IF s[i] \in DOMAIN UpperOf THEN UpperOf[s[i]] ELSE s[i]]

\* str.lower()
Lower(s) ==
    [i \in DOMAIN s |-> IF s[i] \in DOMAIN LowerOf THEN LowerOf[s[i]] ELSE s[i]]

\* position of the first occurrence of the character c in s, 0 if none
FirstIndex(s, c) ==
    IF \E i \in DOMAIN s : s[i] = c
    THEN CHOOSE i \in DOMAIN s : s[i] = c /\ \A j \in 1..(i-1) : s[j] # c
    ELSE 0

\* s.split(c)[0]
SplitFirst(s, c) ==
    IF FirstIndex(s, c) = 0 THEN s ELSE SubSeq(s, 1, FirstIndex(s, c) - 1)

\* s.split(c): the list of the pieces of s between occurrences of c
RECURSIVE Split(_, _)
Split(s, c) ==
    IF FirstIndex(s, c) = 0
    THEN << s >>
    ELSE << SubSeq(s, 1, FirstIndex(s, c) - 1) >>
         \o Split(SubSeq(s, FirstIndex(s, c) + 1, Len(s)), c)

\* s.strip(): leading and trailing blanks removed
RECURSIVE Strip(_)
Strip(s) ==
    IF s = << >> THEN s
    ELSE IF Head(s) = " " THEN Strip(Tail(s))
    ELSE IF s[Len(s)] = " " THEN Strip(SubSeq(s, 1, Len(s) - 1))
    ELSE s

\* k in s  (substring test)
Contains(s, k) ==
    \E i \in 1..(Len(s) - Len(k) + 1) : SubSeq(s, i, i + Len(k) - 1) = k

\* str(v)
Str(v) == IF IsNA(v) THEN << "N","o","n","e" >> ELSE v

----------------------------------------------------------------------------
(* Identity normalizer *)

UNKNOWN   == << "U","N","K","N","O","W","N" >>
UNICON    == << "U","N","I","C","O","N" >>
UNACEM    == << "U","N","A","C","E","M" >>
CONCREMAX == << "C","O","N","C","R","E","M","A","X" >>
ARPL      == << "A","R","P","L" >>
OTROS     == << "O","T","R","O","S" >>

normalize_hostname(hostname) ==
    IF hostname = << >> \/ IsNA(hostname)
    THEN UNKNOWN
    ELSE SplitFirst(Upper(Str(hostname)), ".")

\* ARPL tested before CONCREMAX
determine_group_reordered(hostname) ==
    LET h == Upper(Str(hostname)) IN
    IF Contains(h, UNICON) THEN UNICON
    ELSE IF Contains(h, UNACEM) THEN UNACEM
    ELSE IF Contains(h, ARPL) THEN ARPL
    ELSE IF Contains(h, CONCREMAX) THEN CONCREMAX
    ELSE OTROS

determine_group(hostname) ==
    LET h == Upper(Str(hostname)) IN
    IF Contains(h, UNICON) THEN UNICON
    ELSE IF Contains(h, UNACEM) THEN UNACEM
    ELSE IF Contains(h, CONCREMAX) THEN CONCREMAX
    ELSE IF Contains(h, ARPL) THEN ARPL
    ELSE OTROS

----------------------------------------------------------------------------
(* Step 1: extract.  A failed read is replaced by an empty DataFrame. *)

ReadSql(table, readable) == IF readable THEN table ELSE << >>

----------------------------------------------------------------------------
(* Step 2: transform and unify *)

\* the pieces kept as they are, blanks included
ExplodeRow_unstripped(row) ==
    LET parts == Split(Str(row.cve), ",")
    IN  [k \in 1..Len(parts) |-> [row EXCEPT !.cve = parts[k]]]

\* a missing cve left missing instead of becoming the text of str()
ExplodeRow_keeps_missing(row) ==
    IF IsNA(row.cve) THEN << row >>
    ELSE LET parts == Split(row.cve, ",")
         IN  [k \in 1..Len(parts) |-> [row EXCEPT !.cve = Strip(parts[k])]]

\* One source row becomes one row per piece of str(cve) between commas,
\* each piece stripped of surrounding blanks.
ExplodeRow(row) ==
    LET parts == Split(Str(row.cve), ",")
    IN  [k \in 1..Len(parts) |-> [row EXCEPT !.cve = Strip(parts[k])]]

RECURSIVE ExplodeFrom(_, _)
ExplodeFrom(df, i) ==
    IF i > Len(df) THEN << >> ELSE ExplodeRow(df[i]) \o ExplodeFrom(df, i + 1)

\* astype(str), str.split(','), explode('cve'), str.strip()
ExplodeCve(df) == IF df # << >> THEN ExplodeFrom(df, 1) ELSE df

\* hostname_norm added, key columns selected, risk/status renamed
t_cols(df_tenable) ==
    [i \in DOMAIN df_tenable |->
        [hostname_norm    |-> normalize_hostname(df_tenable[i].hostname),
         cve              |-> df_tenable[i].cve,
         severity_tenable |-> df_tenable[i].risk,
         status_tenable   |-> df_tenable[i].status]]

v_cols(df_vicarius) ==
    [i \in DOMAIN df_vicarius |->
        [hostname_norm     |-> normalize_hostname(df_vicarius[i].hostname),
         cve               |-> df_vicarius[i].cve,
         severity_vicarius |-> df_vicarius[i].severity,
         status_vicarius   |-> df_vicarius[i].status]]

\* The join key of pd.merge(on=['hostname_norm', 'cve']).  pandas matches a
\* missing key with a missing key, as equality of NA does here.
SameKey(l, r) == l.hostname_norm = r.hostname_norm /\ l.cve = r.cve

MergedRow(host, cve, l_sev, l_st, r_sev, r_st, ind) ==
    [hostname_norm     |-> host,
     cve               |-> cve,
     severity_tenable  |-> l_sev,
     status_tenable    |-> l_st,
     severity_vicarius |-> r_sev,
     status_vicarius   |-> r_st,
     merge_ind         |-> ind]      \* the indicator column _merge

\* the merged rows that the left row l gives against the right frame v
LeftRows(l, v) ==
    LET m == SelectSeq(v, LAMBDA r : SameKey(l, r))
    IN  IF m = << >>
        THEN << MergedRow(l.hostname_norm, l.cve, l.severity_tenable,
                          l.status_tenable, NA, NA, "left_only") >>
        ELSE [k \in 1..Len(m) |->
                 MergedRow(l.hostname_norm, l.cve, l.severity_tenable,
                           l.status_tenable, m[k].severity_vicarius,
                           m[k].status_vicarius, "both")]

RECURSIVE LeftFrom(_, _, _)
LeftFrom(t, v, i) ==
    IF i > Len(t) THEN << >> ELSE LeftRows(t[i], v) \o LeftFrom(t, v, i + 1)

RightOnly(t, v) ==
    LET u == SelectSeq(v, LAMBDA r : ~ \E i \in DOMAIN t : SameKey(t[i], r))
    IN  [k \in 1..Len(u) |->
            MergedRow(u[k].hostname_norm, u[k].cve, NA, NA,
                      u[k].severity_vicarius, u[k].status_vicarius,
                      "right_only")]

\* how='left': the rows of the right frame without a partner are lost
Merge_left(t, v) == LeftFrom(t, v, 1)

\* the two frames stacked, no row paired with another
Merge_concat(t, v) == LeftFrom(t, << >>, 1) \o RightOnly(<< >>, v)

\* pd.merge(t_cols, v_cols, on=[...], how='outer', indicator=True).
\* The order of the rows of the result is not significant.
Merge(t, v) == LeftFrom(t, v, 1) \o RightOnly(t, v)

\* the indicator of the left-only rows misspelt
get_source_detection_typo(row) ==
    IF row.merge_ind = "both" THEN "AMBAS"
    ELSE IF row.merge_ind = "left" THEN "TENABLE_ONLY"
    ELSE IF row.merge_ind = "right_only" THEN "VICARIUS_ONLY"
    ELSE "UNKNOWN"

get_source_detection(row) ==
    IF row.merge_ind = "both" THEN "AMBAS"
    ELSE IF row.merge_ind = "left_only" THEN "TENABLE_ONLY"
    ELSE IF row.merge_ind = "right_only" THEN "VICARIUS_ONLY"
    ELSE "UNKNOWN"

\* an empty string taken for a missing value
combine_first_falsy(a, b) == IF IsNA(a) \/ a = << >> THEN b ELSE a

\* Series.combine_first, element by element
combine_first(a, b) == IF IsNA(a) THEN b ELSE a

FinalDf(merged) ==
    [i \in DOMAIN merged |->
        [hostname         |-> merged[i].hostname_norm,
         cve_id           |-> merged[i].cve,
         severity         |-> combine_first(merged[i].severity_tenable,
                                            merged[i].severity_vicarius),
         source_detection |-> get_source_detection(merged[i]),
         status           |-> combine_first(merged[i].status_tenable,
                                            merged[i].status_vicarius),
         group_name       |-> determine_group(merged[i].hostname_norm)]]

\* the frames of one call, from what the two reads returned
Merged(df_tenable, df_vicarius) ==
    Merge(t_cols(ExplodeCve(df_tenable)), v_cols(df_vicarius))

Unified(df_tenable, df_vicarius) == FinalDf(Merged(df_tenable, df_vicarius))

\* the projection with its duplicates kept
DimAssetsOf_duplicated(final_df) ==
    [i \in DOMAIN final_df |->
        [hostname   |-> final_df[i].hostname,
         group_name |-> final_df[i].group_name]]

\* final_df[['hostname', 'group_name']].drop_duplicates()
DimAssetsOf(final_df) ==
    LET proj == [i \in DOMAIN final_df |->
                    [hostname   |-> final_df[i].hostname,
                     group_name |-> final_df[i].group_name]]
        first(i) == \A j \in 1..(i - 1) : proj[j] # proj[i]
        keep == {i \in DOMAIN proj : first(i)}
        RECURSIVE pick(_)
        pick(i) == IF i > Len(proj) THEN << >>
                   ELSE (IF i \in keep THEN << proj[i] >> ELSE << >>)
                        \o pick(i + 1)
    IN  pick(1)

----------------------------------------------------------------------------
(* Snapshot log *)

RESOLVED == { << "m","i","t","i","g","a","t","e","d" >>,
              << "f","i","x","e","d" >>,
              << "p","a","t","c","h","e","d" >>,
              << "r","e","s","o","l","v","e","d" >> }

\* the status compared as it is written
count_resolved_exact(series) ==
    Cardinality({i \in DOMAIN series : Str(series[i]) \in RESOLVED})

\* len([s for s in series if str(s).lower() in [...]])
count_resolved(series) ==
    Cardinality({i \in DOMAIN series : Lower(Str(series[i])) \in RESOLVED})

\* A float is kept as the exact fraction num/den in lowest terms; the
\* rounding of binary floating point is not modelled.
RECURSIVE GCD(_, _)
GCD(a, b) == IF b = 0 THEN a ELSE GCD(b, a % b)

Fraction(n, d) == [num |-> n \div GCD(n, d), den |-> d \div GCD(n, d)]

\* (total_resolved / total_detected) * 100
mitigation_percentage(total_resolved, total_detected) ==
    IF total_detected = 0 THEN NA     \* 0/0 is NaN in pandas, not an error
    ELSE LET q == Fraction(total_resolved, total_detected)
         IN  Fraction(q.num * 100, q.den)

\* groupby('group_name') yields its groups in the sorted order of their keys
GroupOrder == << ARPL, CONCREMAX, OTROS, UNACEM, UNICON >>

GroupRows(final_df, g) == SelectSeq(final_df, LAMBDA r : r.group_name = g)

\* stats: one row for every group_name that occurs in final_df
Stats(final_df, date) ==
    LET present == SelectSeq(GroupOrder,
                             LAMBDA g : GroupRows(final_df, g) # << >>)
    IN  [k \in 1..Len(present) |->
            LET x == GroupRows(final_df, present[k])
                detected == Len(x)
                resolved == count_resolved([i \in DOMAIN x |-> x[i].status])
            IN  [group_name            |-> present[k],
                 total_detected        |-> detected,
                 total_resolved        |-> resolved,
                 mitigation_percentage |->
                     mitigation_percentage(resolved, detected),
                 snapshot_date         |-> date]]

----------------------------------------------------------------------------
(* Sink: DataFrame.to_sql(..., if_exists=...) *)

\* if_exists='append' where 'replace' stands
ToSqlReplace_append(table, df) == table \o df

ToSqlReplace(table, df) == df
ToSqlAppend(table, df)  == table \o df

----------------------------------------------------------------------------
(* Source rows the model draws the two source tables from *)

CVE_1 == << "C","V","E","-","2","0","2","3","-","1" >>
CVE_2 == << "C","V","E","-","2","0","2","3","-","2" >>
CVE_NONE == << "N","o","n","e" >>

\* rows of the Tenable source: hostname, cve, risk, status
TenablePool == <<
    [hostname |-> << "w","e","b","0","1",".","c","o","r","p",".","l","o","c","a","l" >>,
     cve      |-> CVE_1 \o << ",", " " >> \o CVE_2,
     risk     |-> << "3" >>,  status |-> << "F","i","x","e","d" >>],
    [hostname |-> NA,  cve |-> NA,  risk |-> NA,  status |-> NA],
    [hostname |-> << "u","n","i","c","o","n","-","d","b","0","1" >>,
     cve      |-> CVE_1,
     risk     |-> << >>,  status |-> << "o","p","e","n" >>],
    [hostname |-> << ".","c","o","r","p" >>,
     cve      |-> << >>,
     risk     |-> << "2" >>,  status |-> << "P","A","T","C","H","E","D" >>],
    [hostname |-> << "U","n","i","c","o","n","-","D","B","0","1",".","a","r","p","l",".","l","o","c","a","l" >>,
     cve      |-> CVE_2,
     risk     |-> << "1" >>,  status |-> NA],
    [hostname |-> << "a","r","p","l","-","c","o","n","c","r","e","m","a","x" >>,
     cve      |-> CVE_2 \o << "," >> \o CVE_1,
     risk     |-> NA,  status |-> << >>] >>

\* rows of the Vicarius source: hostname, cve, severity, status
VicariusPool == <<
    [hostname |-> << "W","E","B","0","1" >>,
     cve      |-> CVE_1,
     severity |-> << "H","i","g","h" >>,  status |-> << "m","i","t","i","g","a","t","e","d" >>],
    [hostname |-> NA,  cve |-> NA,  severity |-> NA,  status |-> << "o","p","e","n" >>],
    [hostname |-> << "U","N","I","C","O","N","-","D","B","0","1",".","x" >>,
     cve      |-> CVE_1,
     severity |-> << "L","o","w" >>,  status |-> << "R","e","s","o","l","v","e","d" >>],
    [hostname |-> << >>,
     cve      |-> CVE_NONE,
     severity |-> << "M","e","d" >>,  status |-> NA],
    [hostname |-> << "u","n","a","c","e","m","-","a","r","p","l" >>,
     cve      |-> CVE_2 \o << "," >> \o CVE_1,
     severity |-> << >>,  status |-> << "o","p","e","n" >>],
    [hostname |-> << "A","R","P","L","-","C","O","N","C","R","E","M","A","X" >>,
     cve      |-> CVE_2,
     severity |-> << "M","e","d" >>,  status |-> << "f","i","x","e","d" >>],
    [hostname |-> << "A","r","p","l","-","f","s" >>,
     cve      |-> CVE_1,
     severity |-> NA,  status |-> << "M","I","T","I","G","A","T","E","D" >>] >>

\* the tables of n rows over a pool, rows in the order of the pool
TablesOver(pool, n) ==
    { [i \in 1..n |-> pool[ix[i]]] :
        ix \in { f \in [1..n -> DOMAIN pool] :
                   \A i \in 1..n, j \in 1..n : i < j => f[i] <= f[j] } }

TablesUpTo(pool, n) == UNION { TablesOver(pool, k) : k \in 0..n }

----------------------------------------------------------------------------
(* State machine *)

NoRun == [outcome |-> "none", df_tenable |-> << >>, df_vicarius |-> << >>]

\* what a call reads (lines 259-268) and how it ended
RunRecord(outcome) ==
    [outcome     |-> outcome,
     df_tenable  |-> ReadSql(tenableRaw, tenableReadable),
     df_vicarius |-> ReadSql(vicariusRaw, vicariusReadable)]

merged   == Merged(ReadSql(tenableRaw, tenableReadable),
                   ReadSql(vicariusRaw, vicariusReadable))
final_df == FinalDf(merged)

InitSink ==
    /\ factTable = << >>
    /\ dimAssets = << >>
    /\ history = << >>
    /\ today = 1
    /\ runCount = 0
    /\ lastRun = NoRun

\* any two source tables within the bound, both readable
Init ==
    /\ tenableRaw \in TablesUpTo(TenablePool, MaxRows)
    /\ vicariusRaw \in TablesUpTo(VicariusPool, MaxRows)
    /\ Len(tenableRaw) + Len(vicariusRaw) <= MaxRows
    /\ tenableReadable = TRUE
    /\ vicariusReadable = TRUE
    /\ InitSink

Ran(outcome) ==
    /\ runCount' = runCount + 1
    /\ lastRun' = RunRecord(outcome)
    /\ UNCHANGED <<tenableRaw, vicariusRaw, tenableReadable,
                   vicariusReadable, today>>

\* the call completes: the three writes succeed
process_integration_layer ==
    /\ runCount < MaxRuns
    /\ merged # << >>
    /\ factTable' = ToSqlReplace(factTable, final_df)
    /\ dimAssets' = ToSqlReplace(dimAssets, DimAssetsOf(final_df))
    /\ history' = ToSqlAppend(history, Stats(final_df, today))
    /\ Ran("ok")

\* Both frames are empty, so merged has columns and no rows.  No result of
\* the call is defined for that by the code itself; what happens is decided
\* by the pandas release in use, and in each case the call raises:
\*  - merged.apply(..., axis=1) returns an empty DataFrame and the
\*    assignment to merged['source_detection'] raises (line 313), or
\*  - the apply returns an empty Series, the two empty tables are written
\*    (lines 324, 327), and the frame that groupby().apply() gives for no
\*    group has no total_resolved/total_detected column (lines 334-343).
RaiseOnEmptyMerge ==
    /\ runCount < MaxRuns
    /\ merged = << >>
    /\ UNCHANGED <<factTable, dimAssets, history>>
    /\ Ran("empty_merge_raised")

RaiseOnEmptyStats ==
    /\ runCount < MaxRuns
    /\ merged = << >>
    /\ factTable' = ToSqlReplace(factTable, final_df)
    /\ dimAssets' = ToSqlReplace(dimAssets, DimAssetsOf(final_df))
    /\ UNCHANGED history
    /\ Ran("empty_stats_raised")

\* to_sql of the unified table raises (line 324)
FactWriteFails ==
    /\ runCount < MaxRuns
    /\ merged # << >>
    /\ UNCHANGED <<factTable, dimAssets, history>>
    /\ Ran("fact_write_failed")

\* the history appended before the asset dimension is written
DimWriteFails_history_first ==
    /\ runCount < MaxRuns
    /\ merged # << >>
    /\ factTable' = ToSqlReplace(factTable, final_df)
    /\ history' = ToSqlAppend(history, Stats(final_df, today))
    /\ UNCHANGED dimAssets
    /\ Ran("dim_write_failed")

\* to_sql of the asset dimension raises (line 327)
DimWriteFails ==
    /\ runCount < MaxRuns
    /\ merged # << >>
    /\ factTable' = ToSqlReplace(factTable, final_df)
    /\ UNCHANGED <<dimAssets, history>>
    /\ Ran("dim_write_failed")

\* to_sql of the history rows raises (line 345)
HistoryWriteFails ==
    /\ runCount < MaxRuns
    /\ merged # << >>
    /\ factTable' = ToSqlReplace(factTable, final_df)
    /\ dimAssets' = ToSqlReplace(dimAssets, DimAssetsOf(final_df))
    /\ UNCHANGED history
    /\ Ran("history_write_failed")

Next ==
    \/ process_integration_layer
    \/ RaiseOnEmptyMerge
    \/ RaiseOnEmptyStats
    \/ FactWriteFails
    \/ DimWriteFails
    \/ HistoryWriteFails

Spec == Init /\ [][Next]_vars

----------------------------------------------------------------------------
(* Successive calls over sources whose availability and day change *)

\* the Tenable source becomes unreadable (its table dropped, the database
\* unreachable) or readable again
TenableAvailability ==
    /\ tenableReadable' = ~tenableReadable
    /\ UNCHANGED <<tenableRaw, vicariusRaw, vicariusReadable, factTable,
                   dimAssets, history, today, runCount, lastRun>>

VicariusAvailability ==
    /\ vicariusReadable' = ~vicariusReadable
    /\ UNCHANGED <<tenableRaw, vicariusRaw, tenableReadable, factTable,
                   dimAssets, history, today, runCount, lastRun>>

\* the date of datetime.now() moves on
Tick ==
    /\ today < MaxDay
    /\ today' = today + 1
    /\ UNCHANGED <<tenableRaw, vicariusRaw, tenableReadable,
                   vicariusReadable, factTable, dimAssets, history,
                   runCount, lastRun>>

InitRuns ==
    /\ tenableRaw \in { << TenablePool[1] >>,
                        << TenablePool[3], TenablePool[5] >> }
    /\ vicariusRaw \in { << VicariusPool[1] >>,
                         << VicariusPool[3], VicariusPool[5] >> }
    /\ tenableReadable = TRUE
    /\ vicariusReadable = TRUE
    /\ InitSink

NextRuns ==
    \/ Next
    \/ TenableAvailability
    \/ VicariusAvailability
    \/ Tick

SpecRuns == InitRuns /\ [][NextRuns]_vars

----------------------------------------------------------------------------
(* Vocabulary of the properties *)

TAGS == {"AMBAS", "TENABLE_ONLY", "VICARIUS_ONLY"}

\* the last call replaced the unified table, so factTable is its output
FactWritten ==
    lastRun.outcome \in {"ok", "dim_write_failed", "history_write_failed",
                         "empty_stats_raised"}

\* the last call failed in a write to the sink
SinkFailed ==
    lastRun.outcome \in {"fact_write_failed", "dim_write_failed",
                         "history_write_failed"}

\* the records the last call joined: source A after the explosion, source B
SourceA == t_cols(ExplodeCve(lastRun.df_tenable))
SourceB == v_cols(lastRun.df_vicarius)

KeyOf(r)   == << r.hostname_norm, r.cve >>
FactKey(r) == << r.hostname, r.cve_id >>

\* the number of records of src with the key k
Count(src, k) == Cardinality({i \in DOMAIN src : KeyOf(src[i]) = k})

FactRows(k) == {i \in DOMAIN factTable : FactKey(factTable[i]) = k}
Tagged(k, tag) ==
    Cardinality({i \in FactRows(k) : factTable[i].source_detection = tag})

Keys(A, B) == {KeyOf(A[i]) : i \in DOMAIN A}
              \cup {KeyOf(B[i]) : i \in DOMAIN B}
              \cup {FactKey(factTable[i]) : i \in DOMAIN factTable}

----------------------------------------------------------------------------
\* C1: every row of the unified fact table has a source_detection that is
\* one of AMBAS, TENABLE_ONLY, VICARIUS_ONLY; UNKNOWN is never written.
C1_SourceDetection ==
    \A i \in DOMAIN factTable : factTable[i].source_detection \in TAGS

\* a unified table that holds rows of all three provenances
C1_Witness ==
    /\ FactWritten
    /\ \A tag \in TAGS :
          \E i \in DOMAIN factTable : factTable[i].source_detection = tag

\* C2: the unified table is the full outer join on (hostname_norm, cve):
\* a key with m >= 1 records in A and n >= 1 in B has exactly m*n rows, all
\* AMBAS; a key only in A has its m rows, all TENABLE_ONLY; a key only in B
\* has its n rows, all VICARIUS_ONLY; no other row exists.
C2_FullOuterJoin ==
    FactWritten =>
      LET A == SourceA
          B == SourceB
      IN
      \A k \in Keys(A, B) :
        LET m == Count(A, k)
            n == Count(B, k)
        IN  /\ Tagged(k, "AMBAS") = m * n
            /\ Tagged(k, "TENABLE_ONLY") = (IF n = 0 THEN m ELSE 0)
            /\ Tagged(k, "VICARIUS_ONLY") = (IF m = 0 THEN n ELSE 0)
            /\ Cardinality(FactRows(k))
                 = m * n + (IF n = 0 THEN m ELSE 0) + (IF m = 0 THEN n ELSE 0)

\* a key with two records in A and one in B, next to a key found in A only
\* and, in another state, a key found in B only
C2_Witness ==
    /\ FactWritten
    /\ \E k \in Keys(SourceA, SourceB) :
          Count(SourceA, k) >= 2 /\ Count(SourceB, k) >= 1
    /\ \E k \in Keys(SourceA, SourceB) :
          Count(SourceA, k) >= 1 /\ Count(SourceB, k) = 0

\* C3: the case of A = {(H1,CVE1), (H1,CVE2)} and B = {(H1,CVE1)}
C3_Scenario ==
    /\ FactWritten
    /\ Len(SourceA) = 2
    /\ Len(SourceB) = 1
    /\ SourceA[1].hostname_norm = SourceA[2].hostname_norm
    /\ SourceA[1].cve # SourceA[2].cve
    /\ \E i \in {1, 2} : KeyOf(SourceB[1]) = KeyOf(SourceA[i])

C3_Rows ==
    /\ Tagged(KeyOf(SourceB[1]), "AMBAS") = 1
    /\ \E i \in {1, 2} :
          /\ KeyOf(SourceA[i]) # KeyOf(SourceB[1])
          /\ Tagged(KeyOf(SourceA[i]), "TENABLE_ONLY") = 1
    /\ \A i \in DOMAIN factTable :
          factTable[i].source_detection # "VICARIUS_ONLY"

\* C3 as stated: the case yields exactly 3 rows, one AMBAS for CVE1, one
\* TENABLE_ONLY for CVE2 and none VICARIUS_ONLY.
C3_ThreeRows == C3_Scenario => (Len(factTable) = 3 /\ C3_Rows)

\* C3 amended: the case yields exactly 2 rows, one AMBAS for CVE1, one
\* TENABLE_ONLY for CVE2 and none VICARIUS_ONLY.
C3_TwoRows == C3_Scenario => (Len(factTable) = 2 /\ C3_Rows)

\* the case built from two rows of the Tenable table and one Vicarius row
C3_Witness == C3_Scenario /\ Len(lastRun.df_tenable) = 2

\* C4: when a call read nothing from source A (the read failed or returned
\* no rows) it does not raise and the unified table holds exactly one row
\* per source-B record, all VICARIUS_ONLY; and likewise with A and B
\* exchanged (one row per exploded source-A record, all TENABLE_ONLY).
C4_DegradedMode ==
    /\ (lastRun.outcome # "none" /\ ~SinkFailed /\ lastRun.df_tenable = << >>)
         => /\ lastRun.outcome = "ok"
            /\ Len(factTable) = Len(lastRun.df_vicarius)
            /\ \A i \in DOMAIN factTable :
                  factTable[i].source_detection = "VICARIUS_ONLY"
    /\ (lastRun.outcome # "none" /\ ~SinkFailed /\ lastRun.df_vicarius = << >>)
         => /\ lastRun.outcome = "ok"
            /\ Len(factTable) = Len(ExplodeCve(lastRun.df_tenable))
            /\ \A i \in DOMAIN factTable :
                  factTable[i].source_detection = "TENABLE_ONLY"

----------------------------------------------------------------------------
\* the raw hostnames the last call read from the two sources
RawHostnames ==
    {lastRun.df_tenable[i].hostname : i \in DOMAIN lastRun.df_tenable}
    \cup {lastRun.df_vicarius[i].hostname : i \in DOMAIN lastRun.df_vicarius}

\* the part of s before its first '.', all of s when it has none
BeforeFirstDot(s) ==
    CHOOSE p \in {SubSeq(s, 1, n) : n \in 0..Len(s)} :
        /\ \A i \in DOMAIN p : p[i] # "."
        /\ Len(p) = Len(s) \/ s[Len(p) + 1] = "."

\* C5: normalize_hostname returns a non-empty uppercase string for every raw
\* hostname: UNKNOWN for a null or empty one, otherwise the uppercased part
\* before the first '.'; so every hostname of the unified table is
\* non-empty and uppercase.
C5_NormalizeHostname ==
    /\ \A raw \in RawHostnames :
          LET h == normalize_hostname(raw)
          IN  /\ h # << >>
              /\ Upper(h) = h
              /\ h = (IF raw = NA \/ raw = << >> THEN UNKNOWN
                      ELSE Upper(BeforeFirstDot(raw)))
    /\ \A i \in DOMAIN factTable :
          /\ factTable[i].hostname # << >>
          /\ Upper(factTable[i].hostname) = factTable[i].hostname

GROUPS == {UNICON, UNACEM, CONCREMAX, ARPL, OTROS}

\* C6: group_name of every unified row is the first of UNICON, UNACEM,
\* CONCREMAX, ARPL that occurs in the uppercased hostname, wherever it
\* occurs, and OTROS when none does.
C6_DetermineGroup ==
    \A i \in DOMAIN factTable :
        LET g == factTable[i].group_name
            h == Upper(factTable[i].hostname)
            has(k) == \E n \in 1..Len(h) :
                         n + Len(k) - 1 <= Len(h)
                         /\ \A j \in 1..Len(k) : h[n + j - 1] = k[j]
        IN  /\ g \in GROUPS
            /\ g = UNICON    <=> has(UNICON)
            /\ g = UNACEM    <=> ~has(UNICON) /\ has(UNACEM)
            /\ g = CONCREMAX <=> ~has(UNICON) /\ ~has(UNACEM) /\ has(CONCREMAX)
            /\ g = ARPL      <=> ~has(UNICON) /\ ~has(UNACEM) /\ ~has(CONCREMAX)
                                 /\ has(ARPL)
            /\ g = OTROS     <=> ~has(UNICON) /\ ~has(UNACEM) /\ ~has(CONCREMAX)
                                 /\ ~has(ARPL)

\* a host whose name holds ARPL before CONCREMAX, next to a host of OTROS
C6_Witness ==
    /\ FactWritten
    /\ \E i \in DOMAIN factTable :
          /\ Contains(factTable[i].hostname, ARPL \o << "-" >> \o CONCREMAX)
          /\ factTable[i].group_name = CONCREMAX
    /\ \E i \in DOMAIN factTable : factTable[i].group_name = OTROS

\* x when it is present (not missing; an empty string is present), else y
Coalesce(x, y) == IF x # NA THEN x ELSE y

\* C7: severity of a unified row is source A's severity when present and
\* source B's otherwise, and status likewise and independently; a row of
\* one source alone carries that source's values.
C7_Coalescing ==
    FactWritten =>
      LET A == SourceA
          B == SourceB
      IN
      /\ \A i \in DOMAIN factTable :
           LET r == factTable[i]
               as == {a \in DOMAIN A : KeyOf(A[a]) = FactKey(r)}
               bs == {b \in DOMAIN B : KeyOf(B[b]) = FactKey(r)}
           IN  IF r.source_detection = "AMBAS"
               THEN \E a \in as, b \in bs :
                      /\ r.severity = Coalesce(A[a].severity_tenable,
                                               B[b].severity_vicarius)
                      /\ r.status = Coalesce(A[a].status_tenable,
                                             B[b].status_vicarius)
               ELSE IF r.source_detection = "TENABLE_ONLY"
               THEN \E a \in as :
                      /\ r.severity = A[a].severity_tenable
                      /\ r.status = A[a].status_tenable
               ELSE \E b \in bs :
                      /\ r.severity = B[b].severity_vicarius
                      /\ r.status = B[b].status_vicarius
      /\ \A a \in DOMAIN A, b \in DOMAIN B :
           KeyOf(A[a]) = KeyOf(B[b]) =>
             \E i \in DOMAIN factTable :
               /\ FactKey(factTable[i]) = KeyOf(A[a])
               /\ factTable[i].severity
                    = Coalesce(A[a].severity_tenable, B[b].severity_vicarius)
               /\ factTable[i].status
                    = Coalesce(A[a].status_tenable, B[b].status_vicarius)

\* a matched pair whose severity comes from B (missing in A) while its
\* status is A's empty string, B's status being another value
C7_Witness ==
    /\ FactWritten
    /\ \E a \in DOMAIN SourceA, b \in DOMAIN SourceB :
          /\ KeyOf(SourceA[a]) = KeyOf(SourceB[b])
          /\ SourceA[a].severity_tenable = NA
          /\ SourceB[b].severity_vicarius # NA
          /\ SourceA[a].status_tenable = << >>
          /\ SourceB[b].status_vicarius \notin {NA, << >>}
          /\ \E i \in DOMAIN factTable :
                /\ factTable[i].source_detection = "AMBAS"
                /\ factTable[i].severity = SourceB[b].severity_vicarius
                /\ factTable[i].status = << >>

----------------------------------------------------------------------------
\* the positions around the pieces of s: 0, every comma, Len(s) + 1
Cuts(s) == {0} \cup {i \in DOMAIN s : s[i] = ","} \cup {Len(s) + 1}

Cut(s, k) == CHOOSE c \in Cuts(s) : Cardinality({x \in Cuts(s) : x < c}) = k - 1

\* the k-th of the pieces of s between commas
Piece(s, k) == SubSeq(s, Cut(s, k) + 1, Cut(s, k + 1) - 1)

\* x without the blanks before its first and after its last other character
Trim(x) ==
    LET nb == {i \in DOMAIN x : x[i] # " "}
    IN  IF nb = {} THEN << >>
        ELSE SubSeq(x, CHOOSE i \in nb : \A j \in nb : i <= j,
                       CHOOSE i \in nb : \A j \in nb : i >= j)

\* the cve field as text; an absent one reads 'None'
CveText(row) == IF row.cve = NA THEN CVE_NONE ELSE row.cve

Identifiers(row) == Cardinality(Cuts(CveText(row))) - 1

RECURSIVE SumIdentifiers(_, _)
SumIdentifiers(df, i) ==
    IF i > Len(df) THEN 0 ELSE Identifiers(df[i]) + SumIdentifiers(df, i + 1)

\* C8: a source-A record whose cve holds k comma-separated identifiers gives
\* exactly k records before the join, each with one trimmed identifier and
\* the record's hostname, severity and status; a record without a comma
\* (an absent or blank cve included) gives exactly one; source-B records
\* are never split.
C8_Explosion ==
    LET dfT == lastRun.df_tenable
        dfV == lastRun.df_vicarius
    IN  /\ \A i \in DOMAIN dfT :
              LET k == Identifiers(dfT[i])
                  e == ExplodeCve(<< dfT[i] >>)
              IN  /\ Len(e) = k
                  /\ \A j \in 1..k :
                        e[j] = [dfT[i] EXCEPT
                                  !.cve = Trim(Piece(CveText(dfT[i]), j))]
        /\ Len(ExplodeCve(dfT)) = SumIdentifiers(dfT, 1)
        /\ FactWritten =>
              /\ \A i \in DOMAIN dfT : \A j \in 1..Identifiers(dfT[i]) :
                    \E r \in DOMAIN factTable :
                       /\ factTable[r].hostname
                            = normalize_hostname(dfT[i].hostname)
                       /\ factTable[r].cve_id
                            = Trim(Piece(CveText(dfT[i]), j))
                       /\ factTable[r].source_detection
                            \in {"AMBAS", "TENABLE_ONLY"}
              /\ \A i \in DOMAIN dfV :
                    \E r \in DOMAIN factTable :
                       /\ factTable[r].hostname
                            = normalize_hostname(dfV[i].hostname)
                       /\ factTable[r].cve_id = dfV[i].cve
                       /\ factTable[r].source_detection
                            \in {"AMBAS", "VICARIUS_ONLY"}
              /\ dfV = << >> => Len(factTable) = SumIdentifiers(dfT, 1)
              /\ dfT = << >> => Len(factTable) = Len(dfV)

\* a source-A record of two identifiers with a blank after the comma, one
\* with an absent cve, and a source-B record whose cve holds a comma
C8_Witness ==
    /\ FactWritten
    /\ \E i \in DOMAIN lastRun.df_tenable :
          /\ Identifiers(lastRun.df_tenable[i]) = 2
          /\ Contains(lastRun.df_tenable[i].cve, << ",", " " >>)
    /\ \E i \in DOMAIN lastRun.df_tenable : lastRun.df_tenable[i].cve = NA
    /\ \E i \in DOMAIN lastRun.df_vicarius :
          Contains(lastRun.df_vicarius[i].cve, << "," >>)

----------------------------------------------------------------------------
\* the status is one of the resolved keywords, letter case ignored
IsResolved(status) ==
    status # NA /\ \E kw \in RESOLVED : Upper(status) = Upper(kw)

FactGroups == {factTable[i].group_name : i \in DOMAIN factTable}

Detected(g) == {i \in DOMAIN factTable : factTable[i].group_name = g}

\* the history rows the last call appended: one per group of its table
LastSnapshot ==
    SubSeq(history, Len(history) - Cardinality(FactGroups) + 1, Len(history))

RECURSIVE SumDetected(_, _)
SumDetected(rows, i) ==
    IF i > Len(rows) THEN 0
    ELSE rows[i].total_detected + SumDetected(rows, i + 1)

\* C9: a completed call appends exactly one history row for every group of
\* its unified table and none for another group, with total_detected the
\* number of rows of the group, total_resolved the number of them whose
\* status is a resolved keyword whatever its letter case, and
\* mitigation_percentage = 100 * total_resolved / total_detected; so
\* 0 <= total_resolved <= total_detected, total_detected >= 1 and the
\* total_detected of the call sum to the number of unified rows.
C9_Aggregation ==
    /\ \A i \in DOMAIN history :
          /\ history[i].total_detected >= 1
          /\ 0 <= history[i].total_resolved
          /\ history[i].total_resolved <= history[i].total_detected
          /\ history[i].mitigation_percentage.num * history[i].total_detected
               = 100 * history[i].total_resolved
                 * history[i].mitigation_percentage.den
    /\ lastRun.outcome = "ok" =>
          /\ Len(history) >= Cardinality(FactGroups)
          /\ Len(LastSnapshot) = Cardinality(FactGroups)
          /\ \A i \in DOMAIN LastSnapshot :
                LastSnapshot[i].group_name \in FactGroups
          /\ \A g \in FactGroups :
                \E i \in DOMAIN LastSnapshot :
                   /\ LastSnapshot[i].group_name = g
                   /\ LastSnapshot[i].total_detected = Cardinality(Detected(g))
                   /\ LastSnapshot[i].total_resolved
                        = Cardinality({r \in Detected(g) :
                                          IsResolved(factTable[r].status)})
          /\ SumDetected(LastSnapshot, 1) = Len(factTable)

\* a call whose table has two groups, one of them with some but not all of
\* its rows resolved, one of these by a status not written in lower case
C9_Witness ==
    /\ lastRun.outcome = "ok"
    /\ Cardinality(FactGroups) >= 2
    /\ \E i \in DOMAIN LastSnapshot :
          /\ 0 < LastSnapshot[i].total_resolved
          /\ LastSnapshot[i].total_resolved < LastSnapshot[i].total_detected
          /\ \E r \in Detected(LastSnapshot[i].group_name) :
                /\ IsResolved(factTable[r].status)
                /\ factTable[r].status \notin RESOLVED

----------------------------------------------------------------------------
GroupsOf(table) == {table[i].group_name : i \in DOMAIN table}

\* a history row without its snapshot_date
Undated(row) == [group_name            |-> row.group_name,
                 total_detected        |-> row.total_detected,
                 total_resolved        |-> row.total_resolved,
                 mitigation_percentage |-> row.mitigation_percentage]

\* C10: a call that completes leaves the unified table equal to its own
\* output alone and appends one history row per group after the rows that
\* were there, which stay as they were; when the call before it completed
\* over identical sources, the unified table is the same as after that call
\* and the appended rows repeat that call's rows.  No step removes or
\* changes a history row.
C10_ReplaceAndAppend ==
    [][ /\ Len(history') >= Len(history)
        /\ SubSeq(history', 1, Len(history)) = history
        /\ (runCount' = runCount + 1 /\ lastRun'.outcome = "ok") =>
              LET n == Cardinality(GroupsOf(factTable'))
              IN  /\ factTable' = Unified(lastRun'.df_tenable,
                                          lastRun'.df_vicarius)
                  /\ Len(history') = Len(history) + n
                  /\ (/\ lastRun.outcome = "ok"
                      /\ lastRun.df_tenable = lastRun'.df_tenable
                      /\ lastRun.df_vicarius = lastRun'.df_vicarius) =>
                        /\ factTable' = factTable
                        /\ Len(history) >= n
                        /\ \A k \in 1..n :
                              Undated(history'[Len(history) + k])
                                = Undated(history[Len(history) - n + k])
      ]_vars

\* after two calls: the unified table is one output of several rows and the
\* history holds the same snapshot of two groups twice
C10_Witness ==
    /\ runCount = 2
    /\ lastRun.outcome = "ok"
    /\ Len(factTable) >= 2
    /\ factTable = Unified(lastRun.df_tenable, lastRun.df_vicarius)
    /\ Cardinality(FactGroups) = 2
    /\ Len(history) = 4
    /\ \A k \in 1..2 : Undated(history[k]) = Undated(history[2 + k])

----------------------------------------------------------------------------
\* C11: the writes go unified table, asset dimension, history; a call whose
\* write of the unified table or of the asset dimension fails ends as
\* failed and appends nothing to the history, so every step that adds
\* history rows is a call whose two replacing writes were done.
C11_SinkFailureIsFatal ==
    [][ /\ (runCount' = runCount + 1
            /\ lastRun'.outcome = "fact_write_failed") =>
               /\ factTable' = factTable
               /\ dimAssets' = dimAssets
               /\ history' = history
        /\ (runCount' = runCount + 1
            /\ lastRun'.outcome = "dim_write_failed") =>
               /\ factTable' = Unified(lastRun'.df_tenable,
                                       lastRun'.df_vicarius)
               /\ dimAssets' = dimAssets
               /\ history' = history
        /\ history' # history =>
               /\ runCount' = runCount + 1
               /\ lastRun'.outcome = "ok"
               /\ factTable' = Unified(lastRun'.df_tenable,
                                       lastRun'.df_vicarius)
               /\ \A i \in DOMAIN factTable' :
                     \E j \in DOMAIN dimAssets' :
                        dimAssets'[j].hostname = factTable'[i].hostname
      ]_vars

\* a second call whose write of the asset dimension failed: the unified
\* table is the new one, the asset dimension and the history are those of
\* the first call
C11_Witness ==
    /\ runCount = 2
    /\ lastRun.outcome = "dim_write_failed"
    /\ factTable = Unified(lastRun.df_tenable, lastRun.df_vicarius)
    /\ \E i \in DOMAIN factTable :
          \A j \in DOMAIN dimAssets :
             dimAssets[j].hostname # factTable[i].hostname
    /\ history # << >>
    /\ Len(history) = Cardinality({dimAssets[j].group_name :
                                      j \in DOMAIN dimAssets})

----------------------------------------------------------------------------
\* C12: a source-B record whose cve is missing finds no partner: the unified
\* table holds, for its host and a missing cve_id, as many rows as B has
\* such records, all VICARIUS_ONLY, and no AMBAS row has a missing cve_id,
\* whatever source A holds (records of the same host without a cve too).
C12_NullCveStaysVicariusOnly ==
    FactWritten =>
      LET B == SourceB
      IN  /\ \A j \in DOMAIN B :
                B[j].cve = NA =>
                  /\ Tagged(KeyOf(B[j]), "VICARIUS_ONLY") = Count(B, KeyOf(B[j]))
                  /\ Tagged(KeyOf(B[j]), "VICARIUS_ONLY") >= 1
                  /\ Tagged(KeyOf(B[j]), "AMBAS") = 0
                  /\ Tagged(KeyOf(B[j]), "TENABLE_ONLY") = 0
          /\ \A i \in DOMAIN factTable :
                factTable[i].cve_id = NA =>
                   factTable[i].source_detection = "VICARIUS_ONLY"

\* source B has a record without cve on a host where source A has a record
\* whose cve was absent too
C12_Witness ==
    /\ FactWritten
    /\ \E i \in DOMAIN lastRun.df_tenable, j \in DOMAIN lastRun.df_vicarius :
          /\ lastRun.df_tenable[i].cve = NA
          /\ lastRun.df_vicarius[j].cve = NA
          /\ normalize_hostname(lastRun.df_tenable[i].hostname)
               = normalize_hostname(lastRun.df_vicarius[j].hostname)
    /\ \E r \in DOMAIN factTable :
          factTable[r].cve_id = NA
          /\ factTable[r].source_detection = "VICARIUS_ONLY"

----------------------------------------------------------------------------
\* C13: a call none of whose writes to the sink fails completes, whatever
\* the two source tables hold; with both sources empty it leaves an empty
\* unified table and an empty asset dimension and appends no history row.
C13_OnlyIOFails ==
    (lastRun.outcome # "none" /\ ~SinkFailed) =>
        /\ lastRun.outcome = "ok"
        /\ (lastRun.df_tenable = << >> /\ lastRun.df_vicarius = << >>) =>
              factTable = << >> /\ dimAssets = << >>

----------------------------------------------------------------------------
\* the last call did both replacing writes
BothReplaced ==
    lastRun.outcome \in {"ok", "history_write_failed", "empty_stats_raised"}

\* C14: after a call whose two replacing writes were done, the asset
\* dimension holds exactly the hostnames of that call's unified table, each
\* in exactly one row, with the group_name of its unified rows.
C14_AssetDimension ==
    BothReplaced =>
      /\ {dimAssets[j].hostname : j \in DOMAIN dimAssets}
           = {factTable[i].hostname : i \in DOMAIN factTable}
      /\ \A i \in DOMAIN factTable :
            Cardinality({j \in DOMAIN dimAssets :
                            dimAssets[j].hostname = factTable[i].hostname}) = 1
      /\ \A i \in DOMAIN factTable, j \in DOMAIN dimAssets :
            dimAssets[j].hostname = factTable[i].hostname =>
               dimAssets[j].group_name = factTable[i].group_name

\* a unified table of two hosts, one of them with several rows
C14_Witness ==
    /\ lastRun.outcome = "ok"
    /\ Len(dimAssets) = 2
    /\ Len(factTable) >= 3
    /\ dimAssets[1].group_name # dimAssets[2].group_name

====
